---- MODULE Spec2Model ----
(***************************************************************************)
(* Model of the knowledge-based Minesweeper player of src/minesweeper.py:   *)
(* the Sentence class, the MinesweeperAI knowledge base (add_knowledge,     *)
(* mark_mine, mark_safe) and the two move selectors.                        *)
(*                                                                          *)
(* A Python Sentence object is a record [cells, count].  self.knowledge is  *)
(* a sequence of such records, in list order.  Inside step 5 of             *)
(* add_knowledge, where the code tells objects apart with `is`, every list  *)
(* entry also carries an object identity `id`.                              *)
(***************************************************************************)
EXTENDS Integers, FiniteSets, Sequences, TLC

\* Bounds of the model: board dimensions and number of mines laid.
Height == 2
Width == 4
MaxMines == 2
\* Step 5 is followed while self.knowledge holds at most MaxKnowledge entries,
\* ScanSlack entries per cell of the board.
ScanSlack == 3
MaxKnowledge == ScanSlack * Height * Width
\* Largest count an untruthful caller reports.
MaxLie == 2
\* Number of add_knowledge calls an unconstrained caller makes.
MaxCalls == 2

\* Calls on sentences and knowledge bases given directly: the largest count
\* of a given sentence, the longest given list, and the number of calls.
MaxUnitCount == 3
MaxSentences == 2
MaxUnitCalls == 2

VARIABLES
    board,       \* Minesweeper.mines: the mine layout, fixed at construction
    moves_made,  \* MinesweeperAI.moves_made
    mines,       \* MinesweeperAI.mines
    safes,       \* MinesweeperAI.safes
    knowledge,   \* MinesweeperAI.knowledge, a sequence of [cells, count]
    op,          \* the method called last
    arg,         \* its arguments
    result,      \* what it returned: None or Some(cell)
    outcome,     \* "returned", "raised" or "running" (the call is still in step 5)
    calls,       \* number of add_knowledge calls made
    scan         \* position of the step-5 loops while a call is running

vars == <<board, moves_made, mines, safes, knowledge, op, arg, result, outcome,
          calls, scan>>
kbvars == <<moves_made, mines, safes, knowledge>>

\* ------------------------------------------------------------------------
\* Minesweeper (the board)
\* ------------------------------------------------------------------------

\* All (i, j) with 0 <= i < height and 0 <= j < width.
Cells == (0 .. Height - 1) \X (0 .. Width - 1)

\* The cells the double loop range(cell[0]-1, cell[0]+2) x range(cell[1]-1,
\* cell[1]+2) visits, without the cell itself and without out-of-bounds ones.
Neighbours(cell) ==
    { c \in Cells : /\ c # cell
                    /\ c[1] \in (cell[1] - 1) .. (cell[1] + 1)
                    /\ c[2] \in (cell[2] - 1) .. (cell[2] + 1) }

\* Minesweeper.nearby_mines on a board whose mines are the set b.
nearby_mines(b, cell) == Cardinality({ c \in Neighbours(cell) : c \in b })

\* Minesweeper.is_mine
is_mine(b, cell) == cell \in b

\* ------------------------------------------------------------------------
\* Sentence
\* ------------------------------------------------------------------------

\* Python's None / Optional results: a result is a set holding at most one value.
None == {}
Some(x) == {x}

Sentence(cells, count) == [cells |-> cells, count |-> count]

\* Sentence.__eq__
SentenceEq(a, b) == a.cells = b.cells /\ a.count = b.count

\* known_mines with the test `count > 0` in place of `count == len(cells)`.
known_mines_AnyCount(s) == IF s.count > 0 THEN Some(s.cells) ELSE None

\* Sentence.known_mines
known_mines(s) == IF s.count = Cardinality(s.cells) THEN Some(s.cells) ELSE None

\* Sentence.known_safes
\* Sentence.known_safes that gives no result for an empty cell set.
known_safes_NonEmpty(s) ==
    IF s.count = 0 /\ s.cells # {} THEN Some(s.cells) ELSE None

known_safes(s) == IF s.count = 0 THEN Some(s.cells) ELSE None

\* Sentence.mark_mine that removes the cell and leaves the count as it was.
Sentence_mark_mine_NoDecrement(s, cell) ==
    IF cell \in s.cells THEN [s EXCEPT !.cells = s.cells \ {cell}] ELSE s

\* Sentence.mark_mine without the membership test.
Sentence_mark_mine_Unguarded(s, cell) ==
    [s EXCEPT !.cells = s.cells \ {cell}, !.count = s.count - 1]

\* Sentence.mark_mine
Sentence_mark_mine(s, cell) ==
    IF cell \in s.cells
      THEN [s EXCEPT !.cells = s.cells \ {cell}, !.count = s.count - 1]
      ELSE s

\* Sentence.mark_safe
Sentence_mark_safe(s, cell) ==
    IF cell \in s.cells
      THEN [s EXCEPT !.cells = s.cells \ {cell}]
      ELSE s

\* ------------------------------------------------------------------------
\* MinesweeperAI: the knowledge base as a value
\* kb = [moves_made, mines, safes, knowledge]
\* ------------------------------------------------------------------------

\* MinesweeperAI.mark_mine
mark_mine(kb, cell) ==
    [kb EXCEPT !.mines = kb.mines \cup {cell},
               !.knowledge = [k \in 1 .. Len(kb.knowledge) |->
                                 Sentence_mark_mine(kb.knowledge[k], cell)]]

\* MinesweeperAI.mark_safe that records the cell and leaves the sentences.
mark_safe_SetOnly(kb, cell) == [kb EXCEPT !.safes = kb.safes \cup {cell}]

\* MinesweeperAI.mark_safe
mark_safe(kb, cell) ==
    [kb EXCEPT !.safes = kb.safes \cup {cell},
               !.knowledge = [k \in 1 .. Len(kb.knowledge) |->
                                 Sentence_mark_safe(kb.knowledge[k], cell)]]

\* `for cell in check_new_safes.copy(): self.mark_safe(cell)`
RECURSIVE MarkSafes(_, _)
MarkSafes(kb, todo) ==
    IF todo = {} THEN kb
    ELSE LET cell == CHOOSE c \in todo : TRUE
         IN  MarkSafes(mark_safe(kb, cell), todo \ {cell})

\* `for cell in check_new_mines.copy(): self.mark_mine(cell)`
RECURSIVE MarkMines(_, _)
MarkMines(kb, todo) ==
    IF todo = {} THEN kb
    ELSE LET cell == CHOOSE c \in todo : TRUE
         IN  MarkMines(mark_mine(kb, cell), todo \ {cell})

\* Steps 1-3 of add_knowledge: record the move, mark the cell safe, build the
\* new sentence from the neighbourhood and append it.
Undetermined(kb, cell) ==
    { c \in Neighbours(cell) : c \notin kb.moves_made /\ c \notin kb.mines }

\* The new sentence's count taken as reported, known mines not subtracted.
AdjustedCount_Reported(kb, cell, count) == count

AdjustedCount(kb, cell, count) ==
    count - Cardinality({ c \in Neighbours(cell) :
                            ~(c \notin kb.moves_made /\ c \notin kb.mines)
                            /\ c \in kb.mines })

NewSentence(kb, cell, count) ==
    Sentence(Undetermined(kb, cell), AdjustedCount(kb, cell, count))

\* Steps 1-3 without the mark_safe(cell) of step 2.
Intake_NoMarkSafe(kb, cell, count) ==
    LET kb1 == [kb EXCEPT !.moves_made = kb.moves_made \cup {cell}]
    IN  [kb1 EXCEPT !.knowledge = Append(kb1.knowledge, NewSentence(kb1, cell, count))]

Intake(kb, cell, count) ==
    LET kb1 == mark_safe([kb EXCEPT !.moves_made = kb.moves_made \cup {cell}], cell)
    IN  [kb1 EXCEPT !.knowledge = Append(kb1.knowledge, NewSentence(kb1, cell, count))]

\* Step 4 of add_knowledge: one pass `for sentence in self.knowledge`, from
\* list position k on.  known_mines() is evaluated on the sentence as the
\* safe-marking has left it.
\* A step 4 that examines the newly appended sentence only.
Step4_NewSentenceOnly(kb, k) ==
    IF kb.knowledge = << >> THEN kb
    ELSE LET n == Len(kb.knowledge)
             check_new_safes == known_safes(kb.knowledge[n])
             kb1 == IF check_new_safes # None
                      THEN MarkSafes(kb, CHOOSE s \in check_new_safes : TRUE)
                      ELSE kb
             check_new_mines == known_mines(kb1.knowledge[n])
         IN  IF check_new_mines # None
               THEN MarkMines(kb1, CHOOSE s \in check_new_mines : TRUE)
               ELSE kb1

RECURSIVE Step4(_, _)
Step4(kb, k) ==
    IF k > Len(kb.knowledge) THEN kb
    ELSE LET check_new_safes == known_safes(kb.knowledge[k])
             kb1 == IF check_new_safes # None
                      THEN MarkSafes(kb, CHOOSE s \in check_new_safes : TRUE)
                      ELSE kb
             check_new_mines == known_mines(kb1.knowledge[k])
             kb2 == IF check_new_mines # None
                      THEN MarkMines(kb1, CHOOSE s \in check_new_mines : TRUE)
                      ELSE kb1
         IN  Step4(kb2, k + 1)

\* ------------------------------------------------------------------------
\* Step 5 of add_knowledge.  The list entries carry an object identity:
\* [id, cells, count].  st = [K, nxt]: the list and the next fresh identity.
\* ------------------------------------------------------------------------

\* The list as step 5 finds it: entry k is object k.
Tagged(kn) ==
    [k \in 1 .. Len(kn) |-> [id |-> k, cells |-> kn[k].cells, count |-> kn[k].count]]

Untagged(K) == [k \in 1 .. Len(K) |-> Sentence(K[k].cells, K[k].count)]

\* `x in list`: some entry compares equal (__eq__) to x.
ListContains(K, x) == \E k \in 1 .. Len(K) : SentenceEq(K[k], x)

\* list.remove(x): delete the first entry that compares equal to x.
ListRemove(K, x) ==
    LET first == CHOOSE k \in 1 .. Len(K) :
                     /\ SentenceEq(K[k], x)
                     /\ \A m \in 1 .. (k - 1) : ~SentenceEq(K[m], x)
    IN  [k \in 1 .. (Len(K) - 1) |-> IF k < first THEN K[k] ELSE K[k + 1]]

\* The inner-loop body without the `not in self.knowledge` test before append.
InnerBody_AlwaysAppend(st, sentence_one, sentence_two) ==
    IF sentence_one.id = sentence_two.id
      THEN st
    ELSE IF SentenceEq(sentence_one, sentence_two)
      THEN [st EXCEPT !.K = ListRemove(st.K, sentence_two)]
    ELSE IF sentence_one.cells \subseteq sentence_two.cells
      THEN [K |-> Append(st.K, [id |-> st.nxt,
                                cells |-> sentence_two.cells \ sentence_one.cells,
                                count |-> sentence_two.count - sentence_one.count]),
            nxt |-> st.nxt + 1]
    ELSE st

\* The body of the inner loop for the pair (sentence_one, sentence_two).
InnerBody(st, sentence_one, sentence_two) ==
    IF sentence_one.id = sentence_two.id
      THEN st
    ELSE IF SentenceEq(sentence_one, sentence_two)
      THEN [st EXCEPT !.K = ListRemove(st.K, sentence_two)]
    ELSE IF sentence_one.cells \subseteq sentence_two.cells
      THEN LET update_sentence == Sentence(sentence_two.cells \ sentence_one.cells,
                                           sentence_two.count - sentence_one.count)
           IN  IF ~ListContains(st.K, update_sentence)
                 THEN [K |-> Append(st.K, [id |-> st.nxt,
                                           cells |-> update_sentence.cells,
                                           count |-> update_sentence.count]),
                       nxt |-> st.nxt + 1]
                 ELSE st
    ELSE st

\* `for sentence_two in self.knowledge`, the iterator standing before entry j.
\* The iterator ends when its index has passed the end of the list as the
\* list is then.
RECURSIVE InnerLoop(_, _, _)
InnerLoop(st, sentence_one, j) ==
    IF j > Len(st.K) \/ Len(st.K) > MaxKnowledge THEN st
    ELSE InnerLoop(InnerBody(st, sentence_one, st.K[j]), sentence_one, j + 1)

\* `for sentence_one in self.knowledge`, the iterator standing before entry i.
RECURSIVE OuterLoop(_, _)
OuterLoop(st, i) ==
    IF i > Len(st.K) \/ Len(st.K) > MaxKnowledge THEN st
    ELSE OuterLoop(InnerLoop(st, st.K[i], 1), i + 1)

Step5(kn) == OuterLoop([K |-> Tagged(kn), nxt |-> Len(kn) + 1], 1)

\* MinesweeperAI.add_knowledge as a function of the knowledge base.
add_knowledge(kb, cell, count) ==
    LET kb4 == Step4(Intake(kb, cell, count), 1)
        st  == Step5(kb4.knowledge)
    IN  [kb  |-> [kb4 EXCEPT !.knowledge = Untagged(st.K)],
         fin |-> Len(st.K) <= MaxKnowledge]

\* safe_moves without the subtraction of moves_made.
safe_moves_AllSafes(kb) == kb.safes

\* MinesweeperAI.make_safe_move: the cells random.choice picks from.
safe_moves(kb) == kb.safes \ kb.moves_made

make_safe_move(kb) ==
    IF safe_moves(kb) # {} THEN { Some(c) : c \in safe_moves(kb) } ELSE { None }

\* available_moves without the test `cell not in self.mines`.
available_moves_WithMines(kb) == { c \in Cells : c \notin kb.moves_made }

\* MinesweeperAI.make_random_move: the possible return values.
available_moves(kb) == { c \in Cells : c \notin kb.moves_made /\ c \notin kb.mines }

make_random_move(kb) ==
    IF Cardinality(kb.mines) + Cardinality(kb.moves_made) = Height * Width
      THEN { None }
    ELSE IF available_moves(kb) # {}
      THEN { Some(c) : c \in available_moves(kb) }
    ELSE { None }

\* ------------------------------------------------------------------------
\* The state machine
\* ------------------------------------------------------------------------

TheKB == [moves_made |-> moves_made, mines |-> mines, safes |-> safes,
          knowledge |-> knowledge]

Idle == [pc |-> "idle"]

Layouts == { b \in SUBSET Cells : Cardinality(b) <= MaxMines }

Init ==
    /\ board \in Layouts
    /\ moves_made = {}
    /\ mines = {}
    /\ safes = {}
    /\ knowledge = << >>
    /\ op = "init"
    /\ arg = << >>
    /\ result = None
    /\ outcome = "returned"
    /\ calls = 0
    /\ scan = Idle

\* An unconstrained caller does not consult a board.
InitAny == Init /\ board = {}

\* A call add_knowledge(cell, count) that runs to its end.
AddKnowledge(cell, count) ==
    /\ outcome = "returned"
    /\ \E r \in {add_knowledge(TheKB, cell, count)} :
           /\ moves_made' = r.kb.moves_made
           /\ mines' = r.kb.mines
           /\ safes' = r.kb.safes
           /\ knowledge' = r.kb.knowledge
           /\ outcome' = IF r.fin THEN "returned" ELSE "running"
    /\ op' = "add_knowledge"
    /\ arg' = <<cell, count>>
    /\ result' = None
    /\ calls' = calls + 1
    /\ UNCHANGED <<board, scan>>

\* The board reveals a cell that is not a mine and was not revealed before,
\* and reports its true count.
Observe ==
    \E cell \in Cells \ (board \cup moves_made) :
        AddKnowledge(cell, nearby_mines(board, cell))

\* Any call at all: any cell, played or not, with any count.
ObserveAny ==
    /\ calls < MaxCalls
    /\ \E cell \in Cells, count \in 0 .. MaxLie : AddKnowledge(cell, count)

\* make_safe_move that also records the returned cell in moves_made.
MakeSafeMove_Recording ==
    /\ outcome = "returned"
    /\ result' \in make_safe_move(TheKB)
    /\ moves_made' = moves_made \cup result'
    /\ op' = "make_safe_move"
    /\ arg' = << >>
    /\ UNCHANGED <<board, mines, safes, knowledge, outcome, calls, scan>>

MakeSafeMove ==
    /\ outcome = "returned"
    /\ result' \in make_safe_move(TheKB)
    /\ op' = "make_safe_move"
    /\ arg' = << >>
    /\ UNCHANGED <<board, kbvars, outcome, calls, scan>>

MakeRandomMove ==
    /\ outcome = "returned"
    /\ result' \in make_random_move(TheKB)
    /\ op' = "make_random_move"
    /\ arg' = << >>
    /\ UNCHANGED <<board, kbvars, outcome, calls, scan>>

Next == Observe \/ MakeSafeMove \/ MakeRandomMove

Spec == Init /\ [][Next]_vars

NextAny == ObserveAny \/ MakeSafeMove \/ MakeRandomMove

SpecAny == InitAny /\ [][NextAny]_vars

\* ------------------------------------------------------------------------
\* add_knowledge with step 5 taken one loop iteration at a time.
\* scan = [pc, K, nxt, i, j, one]: the list with identities, the two list
\* iterators (i, j: the entry each yields next) and sentence_one.
\* ------------------------------------------------------------------------

\* Steps 1-4 of a truthful observation, and entry into the outer loop.
BeginObserve ==
    /\ outcome = "returned"
    /\ \E cell \in Cells \ (board \cup moves_made) :
         \E kb4 \in {Step4(Intake(TheKB, cell, nearby_mines(board, cell)), 1)} :
             /\ moves_made' = kb4.moves_made
             /\ mines' = kb4.mines
             /\ safes' = kb4.safes
             /\ knowledge' = kb4.knowledge
             /\ scan' = [pc |-> "outer", K |-> Tagged(kb4.knowledge),
                         nxt |-> Len(kb4.knowledge) + 1, i |-> 1, j |-> 1,
                         one |-> [id |-> 0, cells |-> {}, count |-> 0]]
             /\ arg' = <<cell, nearby_mines(board, cell)>>
    /\ op' = "add_knowledge"
    /\ result' = None
    /\ outcome' = "running"
    /\ calls' = calls + 1
    /\ UNCHANGED board

\* `for sentence_one in self.knowledge`: fetch the next entry, or finish.
ScanOuter ==
    /\ outcome = "running"
    /\ scan.pc = "outer"
    /\ Len(scan.K) <= MaxKnowledge
    /\ IF scan.i > Len(scan.K)
         THEN /\ knowledge' = Untagged(scan.K)
              /\ scan' = Idle
              /\ outcome' = "returned"
         ELSE /\ scan' = [scan EXCEPT !.pc = "inner", !.one = scan.K[scan.i],
                                      !.i = scan.i + 1, !.j = 1]
              /\ UNCHANGED <<knowledge, outcome>>
    /\ UNCHANGED <<board, moves_made, mines, safes, op, arg, result, calls>>

\* `for sentence_two in self.knowledge`: one iteration, or the end of the loop.
ScanInner ==
    /\ outcome = "running"
    /\ scan.pc = "inner"
    /\ Len(scan.K) <= MaxKnowledge
    /\ IF scan.j > Len(scan.K)
         THEN scan' = [scan EXCEPT !.pc = "outer"]
         ELSE LET st == InnerBody([K |-> scan.K, nxt |-> scan.nxt], scan.one,
                                  scan.K[scan.j])
              IN  scan' = [scan EXCEPT !.K = st.K, !.nxt = st.nxt, !.j = scan.j + 1]
    /\ UNCHANGED <<board, moves_made, mines, safes, knowledge, op, arg, result,
                   outcome, calls>>

NextScan == BeginObserve \/ ScanOuter \/ ScanInner

SpecScan == Init /\ [][NextScan]_vars /\ WF_vars(ScanOuter) /\ WF_vars(ScanInner)

\* ------------------------------------------------------------------------
\* The methods of Sentence and the marking methods of MinesweeperAI called
\* directly, on sentences and sentence lists given by the caller.  The
\* receiver of a Sentence method is knowledge[1].  arg holds the receiver as
\* it was when called (the sentence, or the whole knowledge base), then the
\* cell if the method takes one.
\* ------------------------------------------------------------------------

UnitCells == Neighbours(<<0, 0>>)

UnitSentences ==
    { Sentence(cells, count) : cells \in SUBSET UnitCells, count \in 0 .. MaxUnitCount }

UnitLists == UNION { [1 .. n -> UnitSentences] : n \in 0 .. MaxSentences }

InitUnit ==
    /\ board = {}
    /\ moves_made = {}
    /\ mines = {}
    /\ safes = {}
    /\ knowledge \in UnitLists
    /\ op = "init"
    /\ arg = << >>
    /\ result = None
    /\ outcome = "returned"
    /\ calls = 0
    /\ scan = Idle

\* ai.mark_mine(cell)
MarkMine ==
    /\ calls < MaxUnitCalls
    /\ \E cell \in UnitCells :
         \E kb \in {mark_mine(TheKB, cell)} :
             /\ mines' = kb.mines
             /\ safes' = kb.safes
             /\ knowledge' = kb.knowledge
             /\ arg' = <<TheKB, cell>>
    /\ op' = "mark_mine"
    /\ result' = None
    /\ calls' = calls + 1
    /\ UNCHANGED <<board, moves_made, outcome, scan>>

\* ai.mark_safe(cell)
MarkSafe ==
    /\ calls < MaxUnitCalls
    /\ \E cell \in UnitCells :
         \E kb \in {mark_safe(TheKB, cell)} :
             /\ mines' = kb.mines
             /\ safes' = kb.safes
             /\ knowledge' = kb.knowledge
             /\ arg' = <<TheKB, cell>>
    /\ op' = "mark_safe"
    /\ result' = None
    /\ calls' = calls + 1
    /\ UNCHANGED <<board, moves_made, outcome, scan>>

\* sentence.mark_mine(cell)
SentenceMarkMine ==
    /\ calls < MaxUnitCalls
    /\ knowledge # << >>
    /\ \E cell \in UnitCells :
         /\ knowledge' = [knowledge EXCEPT ![1] = Sentence_mark_mine(knowledge[1], cell)]
         /\ arg' = <<knowledge[1], cell>>
    /\ op' = "Sentence.mark_mine"
    /\ result' = None
    /\ calls' = calls + 1
    /\ UNCHANGED <<board, moves_made, mines, safes, outcome, scan>>

\* sentence.mark_safe(cell)
SentenceMarkSafe ==
    /\ calls < MaxUnitCalls
    /\ knowledge # << >>
    /\ \E cell \in UnitCells :
         /\ knowledge' = [knowledge EXCEPT ![1] = Sentence_mark_safe(knowledge[1], cell)]
         /\ arg' = <<knowledge[1], cell>>
    /\ op' = "Sentence.mark_safe"
    /\ result' = None
    /\ calls' = calls + 1
    /\ UNCHANGED <<board, moves_made, mines, safes, outcome, scan>>

\* sentence.known_mines()
KnownMines ==
    /\ calls < MaxUnitCalls
    /\ knowledge # << >>
    /\ result' = known_mines(knowledge[1])
    /\ op' = "known_mines"
    /\ arg' = <<knowledge[1]>>
    /\ calls' = calls + 1
    /\ UNCHANGED <<board, kbvars, outcome, scan>>

\* sentence.known_safes()
KnownSafes ==
    /\ calls < MaxUnitCalls
    /\ knowledge # << >>
    /\ result' = known_safes(knowledge[1])
    /\ op' = "known_safes"
    /\ arg' = <<knowledge[1]>>
    /\ calls' = calls + 1
    /\ UNCHANGED <<board, kbvars, outcome, scan>>

NextUnit ==
    \/ MarkMine
    \/ MarkSafe
    \/ SentenceMarkMine
    \/ SentenceMarkSafe
    \/ KnownMines
    \/ KnownSafes

SpecUnit == InitUnit /\ [][NextUnit]_vars

\* ------------------------------------------------------------------------
\* Properties
\* ------------------------------------------------------------------------

Returned(name) == op = name /\ outcome = "returned"

\* C1: under truthful observations of unplayed cells, no cell is both in
\* safes and in mines.
C1_Disjoint == safes \cap mines = {}

\* An observation has returned and both sets hold a cell.
C1_Witness == Returned("add_knowledge") /\ mines # {} /\ safes # {}

\* C2: under truthful observations every known safe is no mine of the board,
\* every known mine is one, and make_safe_move never returns a mine.
C2_Sound ==
    /\ \A c \in safes : ~is_mine(board, c)
    /\ \A c \in mines : is_mine(board, c)
    /\ Returned("make_safe_move") => \A c \in result : ~is_mine(board, c)

\* make_safe_move has returned a cell on a board where a mine is known.
C2_Witness == Returned("make_safe_move") /\ result # None /\ mines # {}

\* C3: every truthful add_knowledge call that has entered step 5 leaves it.
C3_Terminates == (outcome = "running") ~> (outcome = "returned")

\* A call is in the inner loop after step 5 has both appended a derived
\* sentence and removed a duplicate (knowledge holds the list as step 5 found it).
C3_Witness ==
    /\ outcome = "running"
    /\ scan.pc = "inner"
    /\ scan.nxt > Len(knowledge) + 1
    /\ Len(scan.K) < scan.nxt - 1

\* C4 (as claimed): when add_knowledge has returned no sentence with cells
\* left has count 0 or count = |cells|, and another step-4 pass is a no-op.
C4_Saturated ==
    Returned("add_knowledge") =>
        /\ \A k \in 1 .. Len(knowledge) :
              knowledge[k].cells # {} =>
                  /\ knowledge[k].count # 0
                  /\ knowledge[k].count # Cardinality(knowledge[k].cells)
        /\ Step4(TheKB, 1) = TheKB

\* C5 (as claimed): when add_knowledge has returned, for any two entries A, B
\* with A.cells a proper subset of B.cells the difference sentence is present.
C5_SubsetClosed ==
    Returned("add_knowledge") =>
        \A a, b \in 1 .. Len(knowledge) :
            (a # b /\ knowledge[a].cells \subseteq knowledge[b].cells
                   /\ knowledge[a].cells # knowledge[b].cells) =>
                \E k \in 1 .. Len(knowledge) :
                    SentenceEq(knowledge[k],
                               Sentence(knowledge[b].cells \ knowledge[a].cells,
                                        knowledge[b].count - knowledge[a].count))

\* C6 (as claimed): an add_knowledge call for a cell that is already in
\* moves_made is rejected with an error and changes nothing in the knowledge base.
C6_DuplicateRejected ==
    [][(calls' = calls + 1 /\ arg'[1] \in moves_made) =>
           (outcome' = "raised" /\ UNCHANGED kbvars)]_vars

\* A sentence with no cells and a count other than 0, or a cell known both
\* safe and mine.
Inconsistent ==
    \/ safes \cap mines # {}
    \/ \E k \in 1 .. Len(knowledge) :
           knowledge[k].cells = {} /\ knowledge[k].count # 0

\* C7 (as claimed): whatever the observations, once the knowledge is
\* inconsistent the add_knowledge call has signalled an error.
C7_InconsistencySurfaced ==
    (op = "add_knowledge" /\ Inconsistent) => outcome = "raised"

\* C8: make_safe_move returns a cell of safes - moves_made when there is one,
\* and None exactly when there is none.
C8_SafeMove ==
    Returned("make_safe_move") =>
        /\ result \subseteq (safes \ moves_made)
        /\ (result = None) <=> (safes \ moves_made = {})

\* make_safe_move has returned a cell while played cells are known safe too.
C8_Witness ==
    /\ Returned("make_safe_move")
    /\ result # None
    /\ moves_made # {}
    /\ mines # {}

\* C9: make_random_move returns a cell that is neither played nor a known
\* mine when there is one, and None exactly when there is none; the early
\* size test holds only when there is none.
C9_RandomMove ==
    LET free == (Cells \ moves_made) \ mines
    IN  /\ Returned("make_random_move") =>
              /\ result \subseteq free
              /\ (result = None) <=> (free = {})
        /\ (Cardinality(mines) + Cardinality(moves_made) = Height * Width) => free = {}

\* make_random_move has returned None on a board with mines, all of them known.
C9_Witness ==
    /\ Returned("make_random_move")
    /\ result = None
    /\ mines # {}

\* C10: a make_safe_move or make_random_move call leaves moves_made, safes,
\* mines and knowledge as they were.
C10_MovesFrame ==
    [][(op' \in {"make_safe_move", "make_random_move"}) => UNCHANGED kbvars]_vars

\* A move has been returned from a knowledge base that holds sentences and
\* a known mine.
C10_Witness ==
    /\ op \in {"make_safe_move", "make_random_move"}
    /\ outcome = "returned"
    /\ result # None
    /\ mines # {}
    /\ Len(knowledge) >= 2

\* C11 (as claimed): when add_knowledge has returned, no cell of any sentence
\* is in safes or in mines.
C11_Purged ==
    Returned("add_knowledge") =>
        \A k \in 1 .. Len(knowledge) :
            knowledge[k].cells \cap (safes \cup mines) = {}

\* C12 (as claimed): when add_knowledge has returned, every sentence of the
\* knowledge base has at least one cell.
C12_NoVacuous ==
    Returned("add_knowledge") =>
        \A k \in 1 .. Len(knowledge) : knowledge[k].cells # {}

\* C13: under truthful observations every sentence of the knowledge base has
\* 0 <= count <= |cells|.
C13_CountInRange ==
    \A k \in 1 .. Len(knowledge) :
        /\ 0 <= knowledge[k].count
        /\ knowledge[k].count <= Cardinality(knowledge[k].cells)

\* A returned call has left a new sentence, a narrowed one and one with a
\* mine accounted for: three entries, a known mine, and a count of 1 or more.
C13_Witness ==
    /\ Returned("add_knowledge")
    /\ Len(knowledge) >= 3
    /\ mines # {}
    /\ \E k \in 1 .. Len(knowledge) : knowledge[k].count >= 1

\* C14 (as claimed): when add_knowledge has returned, no two entries of the
\* knowledge base are equal.
C14_NoDuplicates ==
    Returned("add_knowledge") =>
        \A a, b \in 1 .. Len(knowledge) :
            a # b => ~SentenceEq(knowledge[a], knowledge[b])

\* C15: every played cell is known safe, and the cell of a returned
\* add_knowledge call is in moves_made and in safes.
C15_MovesAreSafe ==
    /\ moves_made \subseteq safes
    /\ Returned("add_knowledge") => (arg[1] \in moves_made /\ arg[1] \in safes)

\* Three cells have been played and a further, unplayed cell is known safe.
C15_Witness ==
    /\ Returned("add_knowledge")
    /\ Cardinality(moves_made) >= 3
    /\ safes \ moves_made # {}

\* C16 (as claimed): the sentence the next truthful add_knowledge call builds
\* has as cells the neighbours that are neither in mines nor in safes, and as
\* count the reported count less the neighbours in mines.
C16_NewSentence ==
    \A cell \in Cells \ (board \cup moves_made) :
        LET kb1 == mark_safe([TheKB EXCEPT !.moves_made = moves_made \cup {cell}], cell)
            new_sentence == NewSentence(kb1, cell, nearby_mines(board, cell))
        IN  /\ new_sentence.cells =
                   { c \in Neighbours(cell) : c \notin kb1.mines /\ c \notin kb1.safes }
            /\ new_sentence.count =
                   nearby_mines(board, cell)
                     - Cardinality({ c \in Neighbours(cell) : c \in kb1.mines })

\* C17: once every cell that is no mine has been observed, every mine with a
\* neighbour that is no mine is in mines.
C17_Complete ==
    (moves_made = Cells \ board) =>
        \A m \in board : (Neighbours(m) \ board # {}) => m \in mines

\* The board is finished, it has two mines, and both are known.
C17_Witness ==
    /\ Returned("add_knowledge")
    /\ moves_made = Cells \ board
    /\ Cardinality(board) = 2
    /\ mines = board

\* C18: after ai.mark_mine(cell) the cell is in mines, no sentence contains
\* it, each sentence that contained it has lost it and has its count one
\* lower, and the others are as they were; after ai.mark_safe(cell) likewise
\* with safes and with the count as it was.
C18_Propagated ==
    op \in {"mark_mine", "mark_safe"} =>
        LET before == arg[1].knowledge
            cell == arg[2]
            drop == IF op = "mark_mine" THEN 1 ELSE 0
        IN  /\ IF op = "mark_mine" THEN cell \in mines ELSE cell \in safes
            /\ Len(knowledge) = Len(before)
            /\ \A k \in 1 .. Len(knowledge) :
                   /\ cell \notin knowledge[k].cells
                   /\ cell \in before[k].cells =>
                          /\ knowledge[k].cells = before[k].cells \ {cell}
                          /\ knowledge[k].count = before[k].count - drop
                   /\ cell \notin before[k].cells => knowledge[k] = before[k]

\* ai.mark_mine(cell) has returned on a list with a sentence that held the
\* cell and a sentence that did not.
C18_Witness ==
    /\ op = "mark_mine"
    /\ \E k \in 1 .. Len(arg[1].knowledge) : arg[2] \in arg[1].knowledge[k].cells
    /\ \E k \in 1 .. Len(arg[1].knowledge) : arg[2] \notin arg[1].knowledge[k].cells

\* C19: after sentence.mark_safe(cell), a second sentence.mark_safe(cell)
\* leaves cells and count as the first call left them; the same for
\* sentence.mark_mine(cell).
C19_Idempotent ==
    /\ op = "Sentence.mark_safe" =>
           Sentence_mark_safe(knowledge[1], arg[2]) = knowledge[1]
    /\ op = "Sentence.mark_mine" =>
           Sentence_mark_mine(knowledge[1], arg[2]) = knowledge[1]

\* sentence.mark_mine(cell) has returned on a sentence that held the cell.
C19_Witness ==
    /\ op = "Sentence.mark_mine"
    /\ arg[2] \in arg[1].cells
    /\ knowledge[1].count = arg[1].count - 1

\* C20: sentence.known_mines() returns the cells when count = |cells| and no
\* result otherwise, sentence.known_safes() returns the cells when count = 0
\* and no result otherwise, and the sentence is as it was.
C20_Narrowing ==
    /\ op = "known_mines" =>
           /\ result = IF arg[1].count = Cardinality(arg[1].cells)
                          THEN Some(arg[1].cells) ELSE None
           /\ knowledge[1] = arg[1]
    /\ op = "known_safes" =>
           /\ result = IF arg[1].count = 0 THEN Some(arg[1].cells) ELSE None
           /\ knowledge[1] = arg[1]

\* sentence.known_safes() has returned the cells of a sentence of two or
\* more cells.
C20_Witness ==
    /\ op = "known_safes"
    /\ result # None
    /\ Cardinality(arg[1].cells) >= 2

====
